---- MODULE Spec2Model ----
(***************************************************************************)
(* A model of tag2json (src/main.rs): the three modes of main (extract,    *)
(* apply, batch-extract) run against a small file system.  A path is a     *)
(* sequence of names, a name a sequence of characters, so that             *)
(* Path::with_extension and str::ends_with are computed on characters.     *)
(***************************************************************************)
EXTENDS Integers, Sequences, FiniteSets, TLC

\* ------------------------------------------------------------------ bounds
\* Inodes the file system can still hand out to File::create.
FreeInodes == 3
\* Deepest nesting of batch_extract calls that is explored.
MaxDepth == 4
\* Longest sidecar object (number of entries) that apply is given.
MaxDocLen == 2

\* ------------------------------------------------------------------ names and paths
nD == <<"D">>
nC == <<"c">>
nL == <<"l">>
nAmp3 == <<"a", ".", "m", "p", "3">>
nBtxt == <<"b", ".", "t", "x", "t">>
nDmp3 == <<"d", ".", "m", "p", "3">>
nSong == <<"s", "o", "n", "g", ".", "m", "p", "3">>
nSongSidecar == <<"s", "o", "n", "g", ".", ".", "j", "s", "o", "n">>
nTjson == <<"t", ".", "j", "s", "o", "n">>
nCover == <<"c", "o", "v", "e", "r", ".", "j", "p", "g">>
nGone == <<"g", "o", "n", "e">>

\* The literals the program passes to with_extension and ends_with.
extDotJpg == <<".", "j", "p", "g">>
extDotJson == <<".", "j", "s", "o", "n">>
extJpeg == <<"j", "p", "e", "g">>
extJson == <<"j", "s", "o", "n">>
sufMp3 == <<"m", "p", "3">>

None == [some |-> FALSE, val |-> <<>>]
Some(v) == [some |-> TRUE, val |-> v]
unwrap_or_else(o, d) == IF o.some THEN o.val ELSE d

RECURSIVE Join(_)
\* Path::to_string_lossy: the names joined by "/".
Join(p) ==
    IF p = <<>> THEN <<>>
    ELSE IF Len(p) = 1 THEN p[1]
    ELSE p[1] \o <<"/">> \o Join(Tail(p))

to_string_lossy(p) == Join(p)

ends_with(s, suf) ==
    /\ Len(s) >= Len(suf)
    /\ SubSeq(s, Len(s) - Len(suf) + 1, Len(s)) = suf

Front(s) == SubSeq(s, 1, Len(s) - 1)
Last(s) == s[Len(s)]

\* Position of the last "." of a name, 0 when there is none.
LastDot(name) ==
    LET dots == {i \in 1..Len(name) : name[i] = "."}
    IN  IF dots = {} THEN 0 ELSE CHOOSE i \in dots : \A j \in dots : j <= i

\* Path::file_stem: the name up to its last ".", the whole name when it has no
\* "." or only a leading one.
file_stem(name) ==
    IF LastDot(name) <= 1 THEN name ELSE SubSeq(name, 1, LastDot(name) - 1)

\* Path::with_extension: the stem, then "." and the extension exactly as given.
with_extension(p, ext) ==
    Front(p) \o <<file_stem(Last(p)) \o (IF ext = <<>> THEN <<>> ELSE <<".">> \o ext)>>

\* ------------------------------------------------------------------ tags and JSON
TextFrame(id, text) == [id |-> id, content |-> [type |-> "Text", text |-> text]]
PictureFrame(data) ==
    [id |-> "APIC",
     content |-> [type |-> "Picture", data |-> data, description |-> "",
                  picture_type |-> "CoverFront", mime_type |-> "image/jpeg"]]
OtherFrame(id) == [id |-> id, content |-> [type |-> "Unknown"]]

\* Content::text
ContentText(c) == IF c.type = "Text" THEN Some(c.text) ELSE [some |-> FALSE, val |-> ""]

TagNew == [frames |-> <<>>]

\* Frame::compare, as add_frame uses it: same id, and for pictures same type.
FrameConflict(a, b) ==
    /\ a.id = b.id
    /\ a.content.type = b.content.type
    /\ a.content.type = "Picture" => a.content.picture_type = b.content.picture_type

\* Tag::add_frame: the frame replaces a conflicting one and goes last.
add_frame(tag, frame) ==
    [frames |-> Append(SelectSeq(tag.frames, LAMBDA f : ~FrameConflict(f, frame)), frame)]

\* tag.pictures().next().map(|p| p.data.clone())
FirstPicture(tag) ==
    LET pics == SelectSeq(tag.frames, LAMBDA f : f.content.type = "Picture")
    IN  IF pics = <<>> THEN [some |-> FALSE, val |-> ""] ELSE Some(pics[1].content.data)

JString(s) == [t |-> "string", s |-> s]
JNumber(n) == [t |-> "number", n |-> n]
JBoolean(b) == [t |-> "boolean", b |-> b]
JNull == [t |-> "null"]
JArray == [t |-> "array", items |-> <<>>]
JObject(entries) == [t |-> "object", entries |-> entries]
new_object == JObject(<<>>)

is_object(v) == v.t = "object"
is_string(v) == v.t = "string"

\* JsonValue's Display: a string is printed bare, anything else as its JSON text.
JsonToString(v) ==
    CASE v.t = "string" -> v.s
      [] v.t = "number" -> ToString(v.n)
      [] v.t = "boolean" -> IF v.b THEN "true" ELSE "false"
      [] v.t = "null" -> "null"
      [] v.t = "array" -> "[]"
      [] OTHER -> "{}"

\* json[key] = val on an object: an existing key keeps its place, a new one goes last.
JsonSet(obj, key, val) ==
    LET hit == {i \in 1..Len(obj.entries) : obj.entries[i].key = key}
    IN  IF hit = {} THEN JObject(Append(obj.entries, [key |-> key, val |-> val]))
        ELSE JObject([i \in 1..Len(obj.entries) |->
                        IF i \in hit THEN [key |-> key, val |-> val] ELSE obj.entries[i]])

Keys(obj) == {obj.entries[i].key : i \in 1..Len(obj.entries)}

\* json::stringify_pretty(v, 4) and json::parse: the text of a value parses back to it.
stringify_pretty(v) == [type |-> "text", value |-> v]
Junk == [type |-> "junk"]
Truncated == [type |-> "truncated"]
Bytes(b) == [type |-> "bytes", bytes |-> b]
Id3(tag) == [type |-> "id3", tag |-> tag]
parse(text) ==
    IF text.type = "text" THEN [ok |-> TRUE, value |-> text.value]
    ELSE [ok |-> FALSE, value |-> JNull]

RECURSIVE FramesToJson(_, _)
\* main.rs 76-81: every frame with text sets json[frame.id()].
FramesToJson(frames, json) ==
    IF frames = <<>> THEN json
    ELSE LET text == ContentText(Head(frames).content)
         IN  FramesToJson(Tail(frames),
                          IF text.some THEN JsonSet(json, Head(frames).id, JString(text.val))
                          ELSE json)

RECURSIVE EntriesToTag_every_value(_, _)
\* A faulty variant of EntriesToTag: the is_string test is gone, every value is printed
\* into a frame.
EntriesToTag_every_value(entries, tag) ==
    IF entries = <<>> THEN tag
    ELSE EntriesToTag_every_value(
             Tail(entries),
             add_frame(tag, TextFrame(Head(entries).key, JsonToString(Head(entries).val))))

RECURSIVE EntriesToTag(_, _)
\* main.rs 124-129: every string-valued entry becomes a text frame.
EntriesToTag(entries, tag) ==
    IF entries = <<>> THEN tag
    ELSE LET e == Head(entries)
         IN  EntriesToTag(Tail(entries),
                          IF is_string(e.val)
                          THEN add_frame(tag, TextFrame(e.key, JsonToString(e.val)))
                          ELSE tag)

\* ------------------------------------------------------------------ the file system
NoNode == 0 - 1
Root == 0
StaticNodes == 10
Nodes == 0..(StaticNodes + FreeInodes - 1)

Entry(name, node) == [name |-> name, node |-> node, err |-> FALSE]

\* The entry of directory node n called name, or NoNode.
Child(f, n, name) ==
    LET hit == {i \in 1..Len(f.entries[n]) : f.entries[n][i].name = name}
    IN  IF hit = {} THEN NoNode ELSE f.entries[n][CHOOSE i \in hit : TRUE].node

RECURSIVE ResolveFrom(_, _, _)
\* Walks path p down from node n, one name at a time (each entry is looked up
\* once, then the walk goes on from it).
ResolveFrom(f, n, p) ==
    IF n = NoNode THEN NoNode
    ELSE IF p = <<>> THEN n
    ELSE IF f.kind[n] # "dir" THEN NoNode
    ELSE CHOOSE r \in {ResolveFrom(f, c, Tail(p)) : c \in {Child(f, n, Head(p))}} : TRUE

\* The node a path names, relative to the working directory.
Resolve(f, p) == IF p = <<>> THEN NoNode ELSE ResolveFrom(f, Root, p)

exists(f, p) == Resolve(f, p) # NoNode
is_dir(f, p) == exists(f, p) /\ f.kind[Resolve(f, p)] = "dir"
is_file(f, p) == exists(f, p) /\ f.kind[Resolve(f, p)] = "file"

\* Path::read_dir, then filter_map(Result::ok).map(|d| d.path()).collect():
\* fails on an unreadable directory; entries that error while listing are dropped.
read_dir(f, p) ==
    LET n == Resolve(f, p)
        good == SelectSeq(f.entries[n], LAMBDA e : ~e.err)
    IN  IF ~f.readable[n] THEN [ok |-> FALSE, files |-> <<>>]
        ELSE [ok |-> TRUE, files |-> [i \in 1..Len(good) |-> p \o <<good[i].name>>]]

\* Tag::read_from_path
read_from_path(f, p) ==
    LET n == Resolve(f, p)
    IN  IF is_file(f, p) /\ f.readable[n] /\ f.data[n].type = "id3"
        THEN [ok |-> TRUE, tag |-> f.data[n].tag]
        ELSE [ok |-> FALSE, tag |-> TagNew]

\* std::fs::read / read_to_string
fs_read(f, p) ==
    LET n == Resolve(f, p)
    IN  IF is_file(f, p) /\ f.readable[n]
        THEN [ok |-> TRUE, data |-> f.data[n]]
        ELSE [ok |-> FALSE, data |-> Junk]

FreeNodes(f) == {n \in Nodes : f.kind[n] = "free"}
ParentNode(f, p) == IF Len(p) = 1 THEN Root ELSE Resolve(f, Front(p))

\* What File::create followed by write_all can do at this path: creation fails
\* for certain under a missing parent, on a directory, or with no inode left;
\* otherwise the environment decides.
WriteOutcomes(f, p) ==
    LET par == ParentNode(f, p)
    IN  IF \/ par = NoNode
           \/ f.kind[par] # "dir"
           \/ is_dir(f, p)
           \/ (~exists(f, p) /\ FreeNodes(f) = {})
        THEN {"create_err"}
        ELSE {"ok", "create_err", "write_err"}

\* The file system after File::create(p) and a write of data.
Created(f, p, data) ==
    LET par == ParentNode(f, p)
        old == Resolve(f, p)
        new == CHOOSE n \in FreeNodes(f) : \A m \in FreeNodes(f) : n <= m
    IN  IF old # NoNode THEN [f EXCEPT !.data[old] = data]
        ELSE [f EXCEPT !.kind[new] = "file",
                       !.data[new] = data,
                       !.entries[par] = Append(@, Entry(Last(p), new))]

\* main.rs 60-69
write_data_to_path(f, p, data, outcome) ==
    CASE outcome = "create_err" -> [ok |-> FALSE, err |-> "Cannot open", fs |-> f]
      [] outcome = "write_err" ->
            [ok |-> FALSE, err |-> "Cannot write JSON", fs |-> Created(f, p, Truncated)]
      [] OTHER -> [ok |-> TRUE, err |-> "", fs |-> Created(f, p, data)]

\* main.rs 71-84
extract_tags_pic(f, p) ==
    LET r == read_from_path(f, p)
    IN  IF ~r.ok THEN [ok |-> FALSE, json |-> new_object, data |-> [some |-> FALSE, val |-> ""]]
        ELSE [ok |-> TRUE,
              json |-> FramesToJson(r.tag.frames, new_object),
              data |-> FirstPicture(r.tag)]

\* ------------------------------------------------------------------ the inputs
pD == <<nD>>
pA == <<nD, nAmp3>>
pB == <<nD, nBtxt>>
pC == <<nD, nC>>
pCD == <<nD, nC, nDmp3>>
pSong == <<nSong>>
pTjson == <<nTjson>>
pCover == <<nCover>>
pGone == <<nGone>>

TagPlain == [frames |-> <<TextFrame("TIT2", "x"), TextFrame("TPE1", "y")>>]
TagPic ==
    [frames |-> <<TextFrame("TIT2", "x"), OtherFrame("COMM"),
                  PictureFrame("img1"), PictureFrame("img2")>>]
TagDup == [frames |-> <<TextFrame("TIT2", "x"), TextFrame("TIT2", "y")>>]
TagOther == [frames |-> <<TextFrame("TALB", "z")>>]
TagOtherPic == [frames |-> <<PictureFrame("img3"), TextFrame("TALB", "z")>>]

\* What a file named *.mp3 may hold: no tag at all, or one of these tags.
ContentsA == {Junk, Id3(TagPlain), Id3(TagPic)}
ContentsD == {Junk, Id3(TagOther), Id3(TagOtherPic)}
ContentsSong == {Junk, Id3(TagPlain), Id3(TagPic), Id3(TagDup)}

\* The batch input lists: the directory itself, its entries, overlapping and
\* missing paths.
InputLists ==
    {<<pD>>, <<pA, pB, pC>>, <<pD, pA>>, <<pGone, pCD>>, <<pC, pA>>}

\* The working directory: D/{a.mp3, b.txt, c/{d.mp3}}, song.mp3, song..json,
\* t.json and cover.jpg.  With loop, c/l is D again; unreadable names a
\* directory that cannot be listed (NoNode: none); with listErr the entry of
\* a.mp3 errors while D is listed.
MkFS(cA, cD, cSong, sidecar, sidecarReadable, coverReadable, loop, unreadable, listErr) ==
    [kind |-> [n \in Nodes |->
                 IF n \in {0, 1, 4} THEN "dir"
                 ELSE IF n < StaticNodes THEN "file" ELSE "free"],
     entries |-> [n \in Nodes |->
                 CASE n = 0 -> <<Entry(nD, 1), Entry(nSong, 6), Entry(nSongSidecar, 7),
                                 Entry(nTjson, 8), Entry(nCover, 9)>>
                   [] n = 1 -> <<[name |-> nAmp3, node |-> 2, err |-> listErr],
                                 Entry(nBtxt, 3), Entry(nC, 4)>>
                   [] n = 4 -> <<Entry(nDmp3, 5)>> \o (IF loop THEN <<Entry(nL, 1)>> ELSE <<>>)
                   [] OTHER -> <<>>],
     data |-> [n \in Nodes |->
                 CASE n = 2 -> cA
                   [] n = 5 -> cD
                   [] n = 6 -> cSong
                   [] n \in {7, 8} -> sidecar
                   [] n = 9 -> Bytes("img0")
                   [] OTHER -> Junk],
     readable |-> [n \in Nodes |->
                 CASE n = unreadable -> FALSE
                   [] n \in {7, 8} -> sidecarReadable
                   [] n = 9 -> coverReadable
                   [] OTHER -> TRUE]]

DocKeys == {"TIT2", "TPE1", "TALB"}
DocVals == {JString("x"), JString(""), JNumber(5), JBoolean(TRUE), JNull, JArray, new_object}
DocEntries == [key : DocKeys, val : DocVals]
\* The objects a sidecar may hold: up to MaxDocLen entries, keys distinct.
Docs ==
    UNION {{d \in [1..n -> DocEntries] : \A i, j \in 1..n : i # j => d[i].key # d[j].key}
           : n \in 0..MaxDocLen}
\* What the sidecar file may hold: no JSON, a root that is no object, an object.
Sidecars ==
    {Junk, stringify_pretty(JArray), stringify_pretty(JString("x")), stringify_pretty(JNull)}
        \cup {stringify_pretty(JObject(d)) : d \in Docs}

\* ------------------------------------------------------------------ the state
VARIABLES
    mode,    \* cli.mode: "extract", "apply" or "batch"
    sopts,   \* SingleOpts: id3, json, art
    bopts,   \* BatchOpts: files, aggregate_output, recurse
    fs,      \* the file system
    pc,      \* where main is
    loc,     \* the locals of extract_file and apply_tags
    stack,   \* the batch_extract calls in progress: their files and position
    blob,    \* main's aggregate object
    result,  \* what main returns: "none" yet, "Ok", "panic" or the error message
    stdout,  \* the documents printed
    stderr,  \* the paths eprintln reported
    io       \* the file operations attempted so far, in order

vars == <<mode, sopts, bopts, fs, pc, loc, stack, blob, result, stdout, stderr, io>>

NoSingle == [id3 |-> <<>>, json |-> None, art |-> None]
NoBatch == [files |-> <<>>, aggregate_output |-> FALSE, recurse |-> TRUE]
NoLoc ==
    [json_path |-> <<>>, art_path |-> <<>>, json |-> JNull,
     data |-> [some |-> FALSE, val |-> ""], text |-> Junk, tag |-> TagNew]

Op(op, path, ok) == [op |-> op, path |-> path, ok |-> ok]

InitCommon ==
    /\ loc = NoLoc
    /\ stack = <<>>
    /\ blob = new_object
    /\ result = "none"
    /\ stdout = <<>>
    /\ stderr = <<>>
    /\ io = <<>>

InitBatch ==
    /\ mode = "batch"
    /\ pc = "batch_start"
    /\ sopts = NoSingle
    /\ \E files \in InputLists, agg \in BOOLEAN, rec \in BOOLEAN :
          bopts = [files |-> files, aggregate_output |-> agg, recurse |-> rec]
    /\ \E cA \in ContentsA, cD \in ContentsD, loop \in BOOLEAN,
          unreadable \in {NoNode, 1, 4}, listErr \in BOOLEAN :
          fs = MkFS(cA, cD, Id3(TagPlain), Junk, TRUE, TRUE, loop, unreadable, listErr)
    /\ InitCommon

\* file_exists has accepted sopts.id3 (main.rs 25, 51-58).
InitExtract ==
    /\ mode = "extract"
    /\ pc = "extract"
    /\ bopts = NoBatch
    /\ \E id3 \in {pSong, pA}, json \in {None, Some(pTjson)},
          art \in {None, Some(pCover), Some(pTjson)} :
          sopts = [id3 |-> id3, json |-> json, art |-> art]
    /\ \E c \in ContentsSong :
          fs = MkFS(c, Id3(TagOther), c, Junk, TRUE, TRUE, FALSE, NoNode, FALSE)
    /\ InitCommon

InitApply ==
    /\ mode = "apply"
    /\ pc = "apply"
    /\ bopts = NoBatch
    /\ \E id3 \in {pSong, pA}, json \in {None, Some(pTjson)},
          art \in {None, Some(pCover), Some(pGone)} :
          sopts = [id3 |-> id3, json |-> json, art |-> art]
    /\ \E sc \in Sidecars, scr \in BOOLEAN, cr \in BOOLEAN :
          /\ ~scr => sc = Junk
          /\ ~cr => sc \in {Junk, stringify_pretty(new_object)}
          /\ fs = MkFS(Id3(TagPlain), Id3(TagOther), Id3(TagPic), sc, scr, cr,
                       FALSE, NoNode, FALSE)
    /\ InitCommon

Init == InitBatch \/ InitExtract \/ InitApply

Finish(r) == pc' = "done" /\ result' = r

\* ------------------------------------------------------------------ extract_file
\* main.rs 88-93
extract_file_read ==
    /\ pc = "extract"
    /\ LET art_path == unwrap_or_else(sopts.art, with_extension(sopts.id3, extDotJpg))
           json_path == unwrap_or_else(sopts.json, with_extension(sopts.id3, extDotJson))
           r == extract_tags_pic(fs, sopts.id3)
       IN  /\ io' = Append(io, Op("read_tag", sopts.id3, r.ok))
           /\ IF r.ok
              THEN /\ loc' = [loc EXCEPT !.art_path = art_path, !.json_path = json_path,
                                         !.json = r.json, !.data = r.data]
                   /\ pc' = "extract_json"
                   /\ UNCHANGED result
              ELSE /\ Finish("Unable to open id3 file")
                   /\ UNCHANGED loc
    /\ UNCHANGED <<mode, sopts, bopts, fs, stack, blob, stdout, stderr>>

\* A faulty variant of extract_file_json: the result of the write is not looked at.
extract_file_json_unchecked ==
    /\ pc = "extract_json"
    /\ \E o \in WriteOutcomes(fs, loc.json_path) :
          LET w == write_data_to_path(fs, loc.json_path, stringify_pretty(loc.json), o)
          IN  /\ fs' = w.fs
              /\ io' = Append(io, Op("write", loc.json_path, w.ok))
              /\ pc' = "extract_art"
    /\ UNCHANGED <<mode, sopts, bopts, loc, stack, blob, result, stdout, stderr>>

\* main.rs 94-96
extract_file_json ==
    /\ pc = "extract_json"
    /\ \E o \in WriteOutcomes(fs, loc.json_path) :
          LET w == write_data_to_path(fs, loc.json_path, stringify_pretty(loc.json), o)
          IN  /\ fs' = w.fs
              /\ io' = Append(io, Op("write", loc.json_path, w.ok))
              /\ IF w.ok THEN pc' = "extract_art" /\ UNCHANGED result
                 ELSE Finish(w.err)
    /\ UNCHANGED <<mode, sopts, bopts, loc, stack, blob, stdout, stderr>>

\* main.rs 98-102
extract_file_art ==
    /\ pc = "extract_art"
    /\ \/ /\ loc.data.some
          /\ \E o \in WriteOutcomes(fs, loc.art_path) :
                LET w == write_data_to_path(fs, loc.art_path, Bytes(loc.data.val), o)
                IN  /\ fs' = w.fs
                    /\ io' = Append(io, Op("write", loc.art_path, w.ok))
                    /\ Finish(IF w.ok THEN "Ok" ELSE w.err)
       \/ /\ ~loc.data.some
          /\ Finish("Ok")
          /\ UNCHANGED <<fs, io>>
    /\ UNCHANGED <<mode, sopts, bopts, loc, stack, blob, stdout, stderr>>

\* ------------------------------------------------------------------ apply_tags
\* main.rs 106-112
apply_tags_read ==
    /\ pc = "apply"
    /\ LET json_path == unwrap_or_else(sopts.json, with_extension(sopts.id3, extDotJson))
           r == fs_read(fs, json_path)
       IN  /\ io' = Append(io, Op("read", json_path, r.ok))
           /\ IF r.ok
              THEN /\ loc' = [loc EXCEPT !.json_path = json_path, !.text = r.data]
                   /\ pc' = "apply_parse"
                   /\ UNCHANGED result
              ELSE /\ Finish("Unable to open json file")
                   /\ UNCHANGED loc
    /\ UNCHANGED <<mode, sopts, bopts, fs, stack, blob, stdout, stderr>>

\* main.rs 113-120
apply_tags_parse ==
    /\ pc = "apply_parse"
    /\ LET r == parse(loc.text)
       IN  IF ~r.ok THEN Finish("Unable to parse JSON") /\ UNCHANGED loc
           ELSE IF ~is_object(r.value) THEN Finish("No root object found") /\ UNCHANGED loc
           ELSE /\ loc' = [loc EXCEPT !.json = r.value]
                /\ pc' = "apply_frames"
                /\ UNCHANGED result
    /\ UNCHANGED <<mode, sopts, bopts, fs, stack, blob, stdout, stderr, io>>

\* main.rs 122-129
apply_tags_frames ==
    /\ pc = "apply_frames"
    /\ loc' = [loc EXCEPT !.tag = EntriesToTag(loc.json.entries, TagNew)]
    /\ pc' = "apply_art"
    /\ UNCHANGED <<mode, sopts, bopts, fs, stack, blob, result, stdout, stderr, io>>

\* A faulty variant of apply_tags_art: the tag is written to the audio file before the
\* art path is looked at.
apply_tags_art_after_write ==
    /\ pc = "apply_art"
    /\ \/ /\ ~sopts.art.some
          /\ pc' = "apply_write"
          /\ UNCHANGED <<fs, loc, result, io>>
       \/ /\ sopts.art.some
          /\ ~exists(fs, sopts.art.val)
          /\ fs' = [fs EXCEPT !.data[Resolve(fs, sopts.id3)] = Id3(loc.tag)]
          /\ Finish("Provided album path does not exist")
          /\ UNCHANGED <<loc, io>>
       \/ /\ sopts.art.some
          /\ exists(fs, sopts.art.val)
          /\ LET r == fs_read(fs, sopts.art.val)
             IN  /\ io' = Append(io, Op("read", sopts.art.val, r.ok))
                 /\ IF r.ok
                    THEN /\ loc' = [loc EXCEPT !.tag = add_frame(@, PictureFrame(r.data.bytes))]
                         /\ pc' = "apply_write"
                         /\ UNCHANGED result
                    ELSE /\ Finish("Cannot read album art data")
                         /\ UNCHANGED loc
          /\ UNCHANGED fs
    /\ UNCHANGED <<mode, sopts, bopts, stack, blob, stdout, stderr>>

\* main.rs 131-150
apply_tags_art ==
    /\ pc = "apply_art"
    /\ \/ /\ ~sopts.art.some
          /\ pc' = "apply_write"
          /\ UNCHANGED <<loc, result, io>>
       \/ /\ sopts.art.some
          /\ ~exists(fs, sopts.art.val)
          /\ Finish("Provided album path does not exist")
          /\ UNCHANGED <<loc, io>>
       \/ /\ sopts.art.some
          /\ exists(fs, sopts.art.val)
          /\ LET r == fs_read(fs, sopts.art.val)
             IN  /\ io' = Append(io, Op("read", sopts.art.val, r.ok))
                 /\ IF r.ok
                    THEN /\ loc' = [loc EXCEPT !.tag = add_frame(@, PictureFrame(r.data.bytes))]
                         /\ pc' = "apply_write"
                         /\ UNCHANGED result
                    ELSE /\ Finish("Cannot read album art data")
                         /\ UNCHANGED loc
    /\ UNCHANGED <<mode, sopts, bopts, fs, stack, blob, stdout, stderr>>

\* Tag::write_to_path(path, Id3v24): the file now carries the tag, or the write
\* fails and the file is as it was.
write_to_path(f, p, tag, outcome) ==
    IF outcome = "ok" /\ is_file(f, p)
    THEN [ok |-> TRUE, fs |-> [f EXCEPT !.data[Resolve(f, p)] = Id3(tag)]]
    ELSE [ok |-> FALSE, fs |-> f]

\* main.rs 152-155
apply_tags_write ==
    /\ pc = "apply_write"
    /\ \E o \in {"ok", "err"} :
          LET w == write_to_path(fs, sopts.id3, loc.tag, o)
          IN  /\ fs' = w.fs
              /\ io' = Append(io, Op("write_tag", sopts.id3, w.ok))
              /\ Finish(IF w.ok THEN "Ok" ELSE "Could not write tags")
    /\ UNCHANGED <<mode, sopts, bopts, loc, stack, blob, stdout, stderr>>

\* ------------------------------------------------------------------ batch_extract
Top == stack[Len(stack)]
\* `file` of the innermost running loop (main.rs 159).
Cur == Top.files[Top.i]
InLoop == pc = "batch" /\ stack # <<>> /\ Top.i <= Len(Top.files)
\* The innermost loop moves on to its next file.
Advance(st) == [st EXCEPT ![Len(st)].i = @ + 1]
Frame(files) == [files |-> files, i |-> 1]

\* main.rs 197-198: main makes the blob and calls batch_extract on the inputs.
main_batch_start ==
    /\ pc = "batch_start"
    /\ pc' = "batch"
    /\ blob' = new_object
    /\ stack' = <<Frame(bopts.files)>>
    /\ UNCHANGED <<mode, sopts, bopts, fs, loc, result, stdout, stderr, io>>

\* A faulty variant of batch_extract_dir: the recurse flag is not looked at.
batch_extract_dir_always ==
    /\ InLoop
    /\ is_dir(fs, Cur)
    /\ read_dir(fs, Cur).ok
    /\ Len(stack) < MaxDepth
    /\ stack' = Append(stack, Frame(read_dir(fs, Cur).files))
    /\ io' = Append(io, Op("read_dir", Cur, TRUE))
    /\ UNCHANGED <<mode, sopts, bopts, fs, pc, loc, blob, result, stdout, stderr>>

\* A faulty variant of batch_extract_dir: the nested call is given the caller's files
\* (BatchOpts { ..*opt } without the new files).
batch_extract_dir_same_files ==
    /\ InLoop
    /\ is_dir(fs, Cur) /\ bopts.recurse
    /\ read_dir(fs, Cur).ok
    /\ Len(stack) < MaxDepth
    /\ stack' = Append(stack, Frame(Top.files))
    /\ io' = Append(io, Op("read_dir", Cur, TRUE))
    /\ UNCHANGED <<mode, sopts, bopts, fs, pc, loc, blob, result, stdout, stderr>>

\* main.rs 160-164: a directory, with recurse, is listed and its entries are
\* the input of a nested call.
batch_extract_dir ==
    /\ InLoop
    /\ is_dir(fs, Cur) /\ bopts.recurse
    /\ read_dir(fs, Cur).ok
    /\ Len(stack) < MaxDepth
    /\ stack' = Append(stack, Frame(read_dir(fs, Cur).files))
    /\ io' = Append(io, Op("read_dir", Cur, TRUE))
    /\ UNCHANGED <<mode, sopts, bopts, fs, pc, loc, blob, result, stdout, stderr>>

\* main.rs 161: read_dir(..).unwrap() on a directory that cannot be listed.
batch_extract_dir_panic ==
    /\ InLoop
    /\ is_dir(fs, Cur) /\ bopts.recurse
    /\ ~read_dir(fs, Cur).ok
    /\ io' = Append(io, Op("read_dir", Cur, FALSE))
    /\ Finish("panic")
    /\ UNCHANGED <<mode, sopts, bopts, fs, loc, stack, blob, stdout, stderr>>

\* main.rs 160, 165-168: neither branch takes the path, or its name does not
\* end with mp3.
batch_extract_skip ==
    /\ InLoop
    /\ ~(is_dir(fs, Cur) /\ bopts.recurse)
    /\ ~is_file(fs, Cur) \/ ~ends_with(to_string_lossy(Cur), sufMp3)
    /\ stack' = Advance(stack)
    /\ UNCHANGED <<mode, sopts, bopts, fs, pc, loc, blob, result, stdout, stderr, io>>

IsMp3File(f, p, rec) ==
    /\ ~(is_dir(f, p) /\ rec)
    /\ is_file(f, p)
    /\ ends_with(to_string_lossy(p), sufMp3)

\* A faulty variant of batch_extract_unreadable: the read error is returned with `?`.
batch_extract_unreadable_fatal ==
    /\ InLoop
    /\ IsMp3File(fs, Cur, bopts.recurse)
    /\ ~extract_tags_pic(fs, Cur).ok
    /\ io' = Append(io, Op("read_tag", Cur, FALSE))
    /\ pc' = "batch_err"
    /\ result' = "Unable to open id3 file"
    /\ UNCHANGED <<mode, sopts, bopts, fs, loc, stack, blob, stdout, stderr>>

\* main.rs 169-175: the tag cannot be read: report the file and go on.
batch_extract_unreadable ==
    /\ InLoop
    /\ IsMp3File(fs, Cur, bopts.recurse)
    /\ ~extract_tags_pic(fs, Cur).ok
    /\ stderr' = Append(stderr, Cur)
    /\ io' = Append(io, Op("read_tag", Cur, FALSE))
    /\ stack' = Advance(stack)
    /\ UNCHANGED <<mode, sopts, bopts, fs, pc, loc, blob, result, stdout>>

\* main.rs 169-175: the tag is read: its document and its first picture.
batch_extract_file ==
    /\ InLoop
    /\ IsMp3File(fs, Cur, bopts.recurse)
    /\ \E r \in {extract_tags_pic(fs, Cur)} :
          /\ r.ok
          /\ loc' = [loc EXCEPT !.json = r.json, !.data = r.data]
    /\ io' = Append(io, Op("read_tag", Cur, TRUE))
    /\ pc' = "batch_art"
    /\ UNCHANGED <<mode, sopts, bopts, fs, stack, blob, result, stdout, stderr>>

\* A faulty variant of batch_extract_art: the art is written only when not aggregating.
batch_extract_art_unless_aggregate ==
    /\ pc = "batch_art"
    /\ \/ /\ loc.data.some /\ ~bopts.aggregate_output
          /\ \E art \in {with_extension(Cur, extJpeg)} :
             \E o \in WriteOutcomes(fs, art) :
             \E w \in {write_data_to_path(fs, art, Bytes(loc.data.val), o)} :
                /\ fs' = w.fs
                /\ io' = Append(io, Op("write", art, w.ok))
                /\ pc' = IF w.ok THEN "batch_json" ELSE "batch_err"
                /\ result' = IF w.ok THEN result ELSE w.err
       \/ /\ ~loc.data.some \/ bopts.aggregate_output
          /\ pc' = "batch_json"
          /\ UNCHANGED <<fs, io, result>>
    /\ UNCHANGED <<mode, sopts, bopts, loc, stack, blob, stdout, stderr>>

\* main.rs 176-178: a picture is written beside the file; a failed write
\* returns the error.
batch_extract_art ==
    /\ pc = "batch_art"
    /\ \/ /\ loc.data.some
          /\ \E art \in {with_extension(Cur, extJpeg)} :
             \E o \in WriteOutcomes(fs, art) :
             \E w \in {write_data_to_path(fs, art, Bytes(loc.data.val), o)} :
                /\ fs' = w.fs
                /\ io' = Append(io, Op("write", art, w.ok))
                /\ pc' = IF w.ok THEN "batch_json" ELSE "batch_err"
                /\ result' = IF w.ok THEN result ELSE w.err
       \/ /\ ~loc.data.some
          /\ pc' = "batch_json"
          /\ UNCHANGED <<fs, io, result>>
    /\ UNCHANGED <<mode, sopts, bopts, loc, stack, blob, stdout, stderr>>

\* main.rs 179-185: the document goes into the blob, or into the sidecar
\* beside the file; a failed write returns the error.
batch_extract_json ==
    /\ pc = "batch_json"
    /\ \/ /\ bopts.aggregate_output
          /\ blob' = JsonSet(blob, to_string_lossy(Cur), loc.json)
          /\ pc' = "batch"
          /\ stack' = Advance(stack)
          /\ UNCHANGED <<fs, io, result>>
       \/ /\ ~bopts.aggregate_output
          /\ \E side \in {with_extension(Cur, extJson)} :
             \E o \in WriteOutcomes(fs, side) :
             \E w \in {write_data_to_path(fs, side, stringify_pretty(loc.json), o)} :
                /\ fs' = w.fs
                /\ io' = Append(io, Op("write", side, w.ok))
                /\ pc' = IF w.ok THEN "batch" ELSE "batch_err"
                /\ result' = IF w.ok THEN result ELSE w.err
                /\ stack' = IF w.ok THEN Advance(stack) ELSE stack
          /\ UNCHANGED blob
    /\ UNCHANGED <<mode, sopts, bopts, loc, stdout, stderr>>

\* main.rs 187-188, 164: the loop is over and the call returns Ok; the caller's
\* loop goes on, or main has its answer.
batch_extract_return ==
    /\ pc = "batch"
    /\ stack # <<>>
    /\ Top.i > Len(Top.files)
    /\ IF Len(stack) = 1
       THEN stack' = <<>> /\ pc' = "batch_ok"
       ELSE stack' = Advance(Front(stack)) /\ UNCHANGED pc
    /\ UNCHANGED <<mode, sopts, bopts, fs, loc, blob, result, stdout, stderr, io>>

\* A faulty variant of batch_extract_error: the caller drops the error of the nested
\* call (no `?` at main.rs 164) and its loop goes on.
batch_extract_error_dropped ==
    /\ pc = "batch_err"
    /\ IF Len(stack) >= 2
       THEN stack' = Advance(Front(stack)) /\ pc' = "batch" /\ result' = "none"
       ELSE IF stack # <<>>
       THEN stack' = <<>> /\ UNCHANGED <<pc, result>>
       ELSE pc' = "done" /\ UNCHANGED <<stack, result>>
    /\ UNCHANGED <<mode, sopts, bopts, fs, loc, blob, stdout, stderr, io>>

\* main.rs 164, 177, 184, 198: `?` hands the error to the caller, call by call,
\* and main returns it.
batch_extract_error ==
    /\ pc = "batch_err"
    /\ IF stack # <<>>
       THEN stack' = Front(stack) /\ UNCHANGED pc
       ELSE pc' = "done" /\ UNCHANGED stack
    /\ UNCHANGED <<mode, sopts, bopts, fs, loc, blob, result, stdout, stderr, io>>

\* main.rs 199-203
main_batch_done ==
    /\ pc = "batch_ok"
    /\ stdout' = IF bopts.aggregate_output THEN Append(stdout, stringify_pretty(blob))
                 ELSE stdout
    /\ Finish("Ok")
    /\ UNCHANGED <<mode, sopts, bopts, fs, loc, stack, blob, stderr, io>>

\* ------------------------------------------------------------------ the specifications
NextExtract == extract_file_read \/ extract_file_json \/ extract_file_art
NextApply ==
    \/ apply_tags_read
    \/ apply_tags_parse
    \/ apply_tags_frames
    \/ apply_tags_art
    \/ apply_tags_write
NextBatch ==
    \/ main_batch_start
    \/ batch_extract_dir
    \/ batch_extract_dir_panic
    \/ batch_extract_skip
    \/ batch_extract_unreadable
    \/ batch_extract_file
    \/ batch_extract_art
    \/ batch_extract_json
    \/ batch_extract_return
    \/ batch_extract_error
    \/ main_batch_done

Next == NextExtract \/ NextApply \/ NextBatch

Spec == Init /\ [][Next]_vars

\* batch-extract alone; the program is one thread that never waits, so a step
\* that can be taken is taken.
FairBatch == InitBatch /\ [][NextBatch]_vars /\ WF_vars(NextBatch)

\* ------------------------------------------------------------------ what the claims speak of
Batch == mode = "batch"
Ended == pc = "done"

\* Positions in io of the tag reads of path p, and the paths whose tag was read.
ReadsOf(p) == {i \in 1..Len(io) : io[i].op = "read_tag" /\ io[i].path = p}
Processed == {io[i].path : i \in {j \in 1..Len(io) : io[j].op = "read_tag"}}
ReadOk == {io[i].path : i \in {j \in 1..Len(io) : io[j].op = "read_tag" /\ io[j].ok}}
FailedWrites == {i \in 1..Len(io) : io[i].op = "write" /\ ~io[i].ok}
Reported == {stderr[i] : i \in 1..Len(stderr)}

FileData(f, p) == f.data[Resolve(f, p)]

RECURSIVE WaysFrom(_, _, _)
\* Whether listing directories, starting at input path q, arrives at path p.
WaysFrom(f, q, p) ==
    IF q = p THEN 1
    ELSE IF Len(q) < Len(p) /\ SubSeq(p, 1, Len(q)) = q /\ is_dir(f, q)
    THEN LET n == Resolve(f, q)
             name == p[Len(q) + 1]
         IN  IF \E i \in 1..Len(f.entries[n]) :
                    f.entries[n][i].name = name /\ ~f.entries[n][i].err
             THEN WaysFrom(f, q \o <<name>>, p)
             ELSE 0
    ELSE 0

RECURSIVE WaysIn(_, _, _, _)
\* In how many ways path p is reachable from the input list.
WaysIn(f, files, rec, p) ==
    IF files = <<>> THEN 0
    ELSE (IF Head(files) = p THEN 1
          ELSE IF rec THEN WaysFrom(f, Head(files), p) ELSE 0)
         + WaysIn(f, Tail(files), rec, p)

Ways(p) == WaysIn(fs, bopts.files, bopts.recurse, p)

\* The regular files of the tree whose path ends with mp3.
Mp3Files == {pA, pCD, pSong}

Doc1(k, v) == JObject(<<[key |-> k, val |-> JString(v)]>>)
\* The document and the art each tag of the model is to give, written out.
ExpectedDoc(c) ==
    CASE c = Id3(TagPlain) ->
            JObject(<<[key |-> "TIT2", val |-> JString("x")],
                      [key |-> "TPE1", val |-> JString("y")]>>)
      [] c = Id3(TagPic) -> Doc1("TIT2", "x")
      [] c = Id3(TagDup) -> Doc1("TIT2", "y")
      [] OTHER -> Doc1("TALB", "z")
ExpectedArt(c) ==
    CASE c = Id3(TagPic) -> Some("img1")
      [] c = Id3(TagOtherPic) -> Some("img3")
      [] OTHER -> [some |-> FALSE, val |-> ""]

BlobHas(key, val) ==
    \E i \in 1..Len(blob.entries) : blob.entries[i] = [key |-> key, val |-> val]

\* The outputs of a file whose tag was read, and the absence of any output.
HasOutputs(p) ==
    LET c == FileData(fs, p)
        side == with_extension(p, extJson)
        art == with_extension(p, extJpeg)
    IN  /\ IF bopts.aggregate_output
           THEN BlobHas(to_string_lossy(p), ExpectedDoc(c)) /\ ~exists(fs, side)
           ELSE is_file(fs, side) /\ FileData(fs, side) = stringify_pretty(ExpectedDoc(c))
        /\ IF ExpectedArt(c).some
           THEN is_file(fs, art) /\ FileData(fs, art) = Bytes(ExpectedArt(c).val)
           ELSE ~exists(fs, art)
HasNoOutput(p) ==
    /\ ~exists(fs, with_extension(p, extJson))
    /\ ~exists(fs, with_extension(p, extJpeg))
    /\ to_string_lossy(p) \notin Keys(blob)
    /\ \A i \in 1..Len(io) :
          io[i].op = "write" =>
             io[i].path \notin {with_extension(p, extJson), with_extension(p, extJpeg)}

\* ------------------------------------------------------------------ C1
\* A step of the loop on a matching file whose tag cannot be read.
AtUnreadable ==
    InLoop /\ IsMp3File(fs, Cur, bopts.recurse) /\ ~extract_tags_pic(fs, Cur).ok

C1_SkipStep ==
    AtUnreadable =>
        /\ fs' = fs /\ blob' = blob /\ stdout' = stdout
        /\ result' = "none" /\ pc' = "batch"
        /\ stderr' = Append(stderr, Cur)
        /\ stack' = [stack EXCEPT ![Len(stack)].i = @ + 1]

C1_Outputs ==
    /\ Batch => \A p \in Reported : FileData(fs, p).type # "id3" /\ HasNoOutput(p)
    /\ Batch /\ Ended /\ result = "Ok" =>
          \A p \in Mp3Files :
             Ways(p) > 0 =>
                IF FileData(fs, p).type = "id3" THEN HasOutputs(p)
                ELSE p \in Reported /\ HasNoOutput(p)

\* C1: a matching file whose tag cannot be read is reported and skipped: the
\* step changes no file, no aggregate entry and no result and the loop moves to
\* the next file; a reported file never has a sidecar, an art file or an
\* aggregate entry; and when the traversal returns Ok every other reachable
\* matching file has exactly the outputs its own tag gives, whatever files
\* failed beside it.
C1_PartialFailureTolerated == [](C1_Outputs) /\ [][C1_SkipStep]_vars

\* a.mp3 failed and was reported, the traversal went on into c/ and d.mp3, read
\* after it, has its outputs.
C1_Witness ==
    /\ Batch /\ Ended /\ result = "Ok"
    /\ bopts.files = <<pD>>
    /\ Reported = {pA}
    /\ FileData(fs, pCD).type = "id3"
    /\ HasOutputs(pCD)

\* ------------------------------------------------------------------ C2
\* C2: in batch mode a failed write is the last file operation there ever is:
\* from then on the run is only returning the error, call by call, up to main,
\* which returns it; nothing is printed, whatever the depth of the failure.
C2_WriteFailureAborts ==
    Batch =>
       \A i \in FailedWrites :
          /\ i = Len(io)
          /\ pc \in {"batch_err", "done"}
          /\ result \in {"Cannot open", "Cannot write JSON"}
          /\ stdout = <<>>

\* The write failed two directories down, in aggregate mode, with an entry
\* already in the blob and an input still to come; main has returned the error.
C2_Witness ==
    /\ Batch /\ Ended
    /\ bopts.aggregate_output
    /\ bopts.files = <<pD, pA>>
    /\ FailedWrites # {}
    /\ io[Len(io)].path = with_extension(pCD, extJpeg)
    /\ blob # new_object
    /\ stack = <<>>

\* ------------------------------------------------------------------ C3
\* The matching files the input list reaches.
Expected == {p \in Mp3Files : Ways(p) > 0}
\* Every matching file of the inputs was read, and read successfully.
AllMatchingRead == Reported = {} /\ \A p \in Expected : p \in ReadOk

\* One document, with exactly the processed paths as keys, no sidecar, and the
\* art of every processed file that has a picture.
C3_Result ==
    /\ Len(stdout) = 1
    /\ stdout[1] = stringify_pretty(blob)
    /\ Keys(stdout[1].value) = {to_string_lossy(p) : p \in Processed}
    /\ Processed = Expected
    /\ \A p \in Processed : HasOutputs(p)

\* C3 as stated: in aggregate mode, once the run has ended with every matching
\* file read successfully, exactly one document has been emitted, with the
\* processed paths as keys, no sidecar and every art file.
C3_Original ==
    Batch /\ bopts.aggregate_output /\ Ended /\ AllMatchingRead => C3_Result

\* C3, amended: the same when, besides, batch_extract returns Ok (no art write
\* fails); and in aggregate mode nothing is printed before the traversal is
\* over, at most one document is printed, and every write goes to the .jpeg
\* path of a processed file.
C3_AggregateMode ==
    Batch /\ bopts.aggregate_output =>
       /\ stdout # <<>> => Ended
       /\ Len(stdout) <= 1
       /\ \A i \in 1..Len(io) :
             io[i].op = "write" =>
                \E q \in Processed : io[i].path = with_extension(q, extJpeg)
       /\ Ended /\ result = "Ok" /\ AllMatchingRead => C3_Result

\* Two files were processed: one document with two keys, and art beside a.mp3.
C3_Witness ==
    /\ Batch /\ bopts.aggregate_output /\ Ended /\ result = "Ok"
    /\ Len(stdout) = 1
    /\ Keys(stdout[1].value) = {to_string_lossy(pA), to_string_lossy(pCD)}
    /\ is_file(fs, with_extension(pA, extJpeg))
    /\ ~exists(fs, with_extension(pA, extJson))

\* ------------------------------------------------------------------ C4
\* The directory holds exactly a.mp3, b.txt and c/ with d.mp3 (outputs apart),
\* and everything in it can be listed.
TreeAsGiven ==
    /\ Child(fs, 4, nL) = NoNode
    /\ \A n \in {1, 4} :
          fs.readable[n] /\ \A i \in 1..Len(fs.entries[n]) : ~fs.entries[n][i].err

\* C4 as stated: given the directory, recurse processes a.mp3 and c/d.mp3, and
\* without recurse exactly a.mp3 is processed.
C4_Original ==
    Batch /\ Ended /\ result = "Ok" /\ TreeAsGiven /\ bopts.files = <<pD>> =>
       Processed = IF bopts.recurse THEN {pA, pCD} ELSE {pA}

\* C4, amended: with recurse exactly a.mp3 and c/d.mp3 are processed, whether
\* the directory or its three entries are the input; without recurse the
\* directory as input is skipped whole and nothing is processed, and exactly
\* a.mp3 is processed when the entries a.mp3, b.txt and c are the input.
\* b.txt is never processed.
C4_Traversal ==
    Batch /\ Ended /\ result = "Ok" /\ TreeAsGiven =>
       /\ bopts.files = <<pD>> =>
             Processed = IF bopts.recurse THEN {pA, pCD} ELSE {}
       /\ bopts.files = <<pA, pB, pC>> =>
             Processed = IF bopts.recurse THEN {pA, pCD} ELSE {pA}
       /\ pB \notin Processed
       /\ HasNoOutput(pB)

\* Without recurse, over the entries of the directory, a.mp3 alone was processed.
C4_Witness ==
    /\ Batch /\ Ended /\ result = "Ok" /\ TreeAsGiven
    /\ ~bopts.recurse
    /\ bopts.files = <<pA, pB, pC>>
    /\ Processed = {pA}

\* ------------------------------------------------------------------ C5
Applying == mode = "apply"
\* What the audio file held before apply ran.
AudioBefore == IF sopts.id3 = pSong THEN Id3(TagPic) ELSE Id3(TagPlain)
AudioUnwritten ==
    /\ FileData(fs, sopts.id3) = AudioBefore
    /\ \A i \in 1..Len(io) : io[i].op # "write_tag"
EarlyErrors ==
    {"Unable to open json file", "Unable to parse JSON", "No root object found",
     "Provided album path does not exist", "Cannot read album art data"}

\* C5: apply_tags writes the audio file in its last step only: a tag write is
\* the last operation of a run that has ended; a run that ended with an
\* unreadable sidecar, malformed JSON, a root that is no object, a missing art
\* path or an unreadable art file left the audio file as it was; and a sidecar
\* that parsed to an object with an art path that does not exist ends in the
\* missing-art error.
C5_WriteIsLast ==
    Applying =>
       /\ \A i \in 1..Len(io) : io[i].op = "write_tag" => i = Len(io) /\ Ended
       /\ ~Ended => AudioUnwritten
       /\ Ended /\ result \in EarlyErrors => AudioUnwritten
       /\ Ended /\ is_object(loc.json) /\ sopts.art.some /\ ~exists(fs, sopts.art.val) =>
             result = "Provided album path does not exist" /\ AudioUnwritten

\* The sidecar held an object with frames to write, the art path was missing.
C5_Witness ==
    /\ Applying /\ Ended
    /\ sopts.art = Some(pGone)
    /\ loc.tag.frames # <<>>
    /\ result = "Provided album path does not exist"
    /\ AudioUnwritten

\* ------------------------------------------------------------------ C6
\* d restricted to its string-valued entries.
StringEntries(d) == JObject(SelectSeq(d.entries, LAMBDA e : e.val.t = "string"))
\* The frames built from the sidecar (the picture apply may add apart).
BuiltFrames == SelectSeq(loc.tag.frames, LAMBDA f : f.id # "APIC")

\* C6: once apply has built the tag from the sidecar object d, mapping that tag
\* back to a document gives d restricted to its string-valued entries, in
\* order; the tag holds one text frame per string entry and none for any
\* other value.
C6_RoundTrip ==
    Applying /\ pc \in {"apply_art", "apply_write"} =>
       /\ FramesToJson(loc.tag.frames, new_object) = StringEntries(loc.json)
       /\ Len(BuiltFrames) = Len(StringEntries(loc.json).entries)
       /\ \A i \in 1..Len(BuiltFrames) :
             /\ BuiltFrames[i].content.type = "Text"
             /\ BuiltFrames[i].id = StringEntries(loc.json).entries[i].key
             /\ BuiltFrames[i].content.text = StringEntries(loc.json).entries[i].val.s

\* A string and a number: the tag holds the one text frame.
C6_Witness ==
    /\ Applying /\ pc = "apply_art"
    /\ loc.json = JObject(<<[key |-> "TIT2", val |-> JString("x")],
                            [key |-> "TPE1", val |-> JNumber(5)]>>)
    /\ loc.tag.frames = <<TextFrame("TIT2", "x")>>

\* ------------------------------------------------------------------ C7
extJpg == <<"j", "p", "g">>
\* The path with its extension replaced: song.mp3 and json give song.json.
Replaced(p, ext) == Front(p) \o <<file_stem(Last(p)) \o <<".">> \o ext>>

\* C7: a sidecar path or art path that is not given is the audio path with its
\* extension replaced by .json or .jpg; a given path is used as it is.
C7_DefaultPaths ==
    /\ mode = "extract" /\ pc = "extract_json" =>
          /\ loc.json_path = unwrap_or_else(sopts.json, Replaced(sopts.id3, extJson))
          /\ loc.art_path = unwrap_or_else(sopts.art, Replaced(sopts.id3, extJpg))
    /\ Applying /\ pc = "apply_parse" =>
          loc.json_path = unwrap_or_else(sopts.json, Replaced(sopts.id3, extJson))

\* ------------------------------------------------------------------ C8
Extracting == mode = "extract"
\* The file system extract_file started from.
ExtractInitFs ==
    MkFS(fs.data[2], Id3(TagOther), fs.data[6], Junk, TRUE, TRUE, FALSE, NoNode, FALSE)
Untouched(p) ==
    /\ Resolve(fs, p) = Resolve(ExtractInitFs, p)
    /\ exists(fs, p) => FileData(fs, p) = FileData(ExtractInitFs, p)
WriteErrors == {"Cannot open", "Cannot write JSON"}
AllOk == \A i \in 1..Len(io) : io[i].ok

\* C8: extract_file reads the tag, then writes the sidecar, then the art, and
\* stops at the first failure: a failed read leaves the file system as it was;
\* a failed sidecar write leaves the art path untouched; a failed art write
\* leaves the sidecar in place; the art is written only when there is a
\* picture; and the result is Ok exactly when the run has ended and every
\* step it made succeeded.
C8_StepsInOrder ==
    Extracting =>
       /\ Len(io) <= 3
       /\ Len(io) >= 1 => io[1] = Op("read_tag", sopts.id3, io[1].ok)
       /\ Len(io) >= 2 => io[1].ok /\ io[2] = Op("write", loc.json_path, io[2].ok)
       /\ Len(io) = 3 =>
             io[2].ok /\ io[3] = Op("write", loc.art_path, io[3].ok) /\ loc.data.some
       /\ Len(io) >= 1 /\ ~io[1].ok =>
             /\ Ended /\ Len(io) = 1
             /\ result = "Unable to open id3 file"
             /\ fs = ExtractInitFs
       /\ Len(io) >= 2 /\ ~io[2].ok =>
             /\ Ended /\ Len(io) = 2
             /\ result \in WriteErrors
             /\ loc.art_path # loc.json_path => Untouched(loc.art_path)
       /\ Len(io) = 3 /\ ~io[3].ok =>
             /\ Ended
             /\ result \in WriteErrors
             /\ is_file(fs, loc.json_path)
             /\ loc.art_path # loc.json_path =>
                   FileData(fs, loc.json_path) = stringify_pretty(loc.json)
       /\ Ended /\ Len(io) >= 2 /\ io[2].ok /\ ~loc.data.some =>
             /\ Len(io) = 2
             /\ loc.art_path # loc.json_path => Untouched(loc.art_path)
       /\ result = "Ok" <=> Ended /\ AllOk
       /\ result = "Ok" =>
             /\ Len(io) = IF ExpectedArt(FileData(fs, sopts.id3)).some THEN 3 ELSE 2
             /\ loc.art_path # loc.json_path =>
                   FileData(fs, loc.json_path)
                      = stringify_pretty(ExpectedDoc(FileData(fs, sopts.id3)))
             /\ ExpectedArt(FileData(fs, sopts.id3)).some =>
                   FileData(fs, loc.art_path)
                      = Bytes(ExpectedArt(FileData(fs, sopts.id3)).val)

\* The art write failed after the file was created; the sidecar is in place.
C8_Witness ==
    /\ Extracting /\ Ended
    /\ Len(io) = 3 /\ ~io[3].ok
    /\ loc.art_path # loc.json_path
    /\ is_file(fs, loc.json_path) /\ is_file(fs, loc.art_path)
    /\ FileData(fs, loc.json_path) = stringify_pretty(loc.json)
    /\ FileData(fs, loc.art_path) = Truncated

\* ------------------------------------------------------------------ C9
\* C9: a batch run in which no write failed has returned Ok when it has ended,
\* with every call of batch_extract returned.
C9_OnlyWriteFailureStops ==
    Batch /\ Ended /\ FailedWrites = {} => result = "Ok" /\ stack = <<>>

\* ------------------------------------------------------------------ C10
\* The nodes the listing of directory node n yields.
Listed(f, n) ==
    IF f.kind[n] # "dir" THEN {}
    ELSE {f.entries[n][i].node : i \in {j \in 1..Len(f.entries[n]) : ~f.entries[n][j].err}}

RECURSIVE Closure(_, _)
Closure(f, S) ==
    LET T == S \cup UNION {Listed(f, n) : n \in S}
    IN  IF T = S THEN S ELSE Closure(f, T)

InputDirs ==
    {Resolve(fs, bopts.files[i]) : i \in {j \in 1..Len(bopts.files) : is_dir(fs, bopts.files[j])}}

\* With recurse, the traversal reaches a directory that is reachable from itself.
CycleReachable ==
    /\ bopts.recurse
    /\ \E n \in Closure(fs, InputDirs) : n \in Closure(fs, Listed(fs, n))

C10_State ==
    /\ Ended /\ result = "Ok" =>
          /\ Processed \subseteq Mp3Files
          /\ \A p \in Mp3Files : Cardinality(ReadsOf(p)) = Ways(p)
    /\ CycleReachable => result # "Ok"

====
